---- MODULE Spec2Model ----
(***************************************************************************)
(* Key hierarchy and envelope encryption of the Personal Data Vault        *)
(* backend: AES-256-GCM blobs (crypto/encryption.ts), KEK derivation and   *)
(* DEK wrapping (crypto/keyManager.ts), key rotation                       *)
(* (crypto/keyRotation.ts), device keys (crypto/deviceKeys.ts) and the     *)
(* storage operations that create and destroy key material                 *)
(* (routes/auth.ts, dsr/deletion.ts).                                      *)
(*                                                                         *)
(* Buffers are sequences of bytes (0..255).  The library primitives are    *)
(* idealised: crypto.randomBytes never repeats a draw, argon2 is           *)
(* injective in (password, salt), and the GCM tag is a keyed checksum that *)
(* separates the keys, nonces and ciphertexts the model can build.         *)
(***************************************************************************)
EXTENDS Integers, Sequences, FiniteSets, TLC

(* ------------------------------ bounds -------------------------------- *)
\* passwords are identified by 1..MaxPw
MaxPw == 2
\* wrapped DEKs a user holds in the key-manager workbench
MaxItems == 2
\* access tokens issued (one per registration or login)
MaxSessions == 2
\* POST /refresh requests served
MaxRefresh == 2
\* recovery codes a caller may present
MaxCodes == 3
\* stored recovery-code hashes in one array
MaxHashes == 2
\* shares a user creates
MaxShares == 1
\* checkShareAccess calls made
MaxChecks == 2
\* ids drawn before a further share is created
MaxCtr == 12
\* logEvent calls made
MaxLog == 3

(* ------------------------- program constants -------------------------- *)
AES_KEY_SIZE == 32
AES_NONCE_SIZE == 12
AES_TAG_SIZE == 16
ARGON2_KEY_LENGTH == 32
SALT_SIZE == 16
DEVICE_KEY_SIZE == 32

Passwords == 1..MaxPw

(* ------------------------------ results ------------------------------- *)
\* A returned value, or the Error a call throws (async: the rejection).
Ok(v) == [ok |-> TRUE, err |-> "", val |-> v]
Err(e) == [ok |-> FALSE, err |-> e, val |-> <<>>]

(* ------------------------- library primitives ------------------------- *)
\* crypto.randomBytes(size): the draw-th output of the CSPRNG.  Distinct
\* draws give buffers that differ in their first byte.
RandomBytes(size, draw) ==
  [i \in 1..size |-> IF i = 1 THEN draw % 200 ELSE (draw * 7 + i * 3) % 256]

\* argon2.hash(password, {salt, hashLength, raw: true}): injective in
\* (password, salt), and never equal to a RandomBytes buffer (first byte).
Argon2Raw(password, salt, hashLength) ==
  [i \in 1..hashLength |->
     IF i = 1 THEN 200 + password
     ELSE IF i - 1 <= Len(salt) THEN salt[i - 1] ELSE 0]

RECURSIVE WeightedSum(_, _)
WeightedSum(buf, i) == IF i = 0 THEN 0 ELSE buf[i] * i + WeightedSum(buf, i - 1)

\* polynomial checksum of a buffer (the GHASH of the model)
Poly(buf) == WeightedSum(buf, Len(buf)) % 251

\* AES-CTR keystream byte i under (key, nonce)
KeyStream(key, nonce, i) == (Poly(key) + key[1] + Poly(nonce) + nonce[1] + 17 * i) % 256

\* cipher.update(plaintext) + cipher.final()
GcmEncryptBytes(key, nonce, plaintext) ==
  [i \in 1..Len(plaintext) |-> (plaintext[i] + KeyStream(key, nonce, i)) % 256]

\* decipher.update(ciphertext)
GcmDecryptBytes(key, nonce, ciphertext) ==
  [i \in 1..Len(ciphertext) |-> (ciphertext[i] + 256 - KeyStream(key, nonce, i)) % 256]

\* cipher.getAuthTag(): 16 bytes binding key, nonce and ciphertext
GcmTag(key, nonce, ciphertext) ==
  [i \in 1..AES_TAG_SIZE |->
     CASE i = 1 -> key[1]
       [] i = 2 -> key[2]
       [] i = 3 -> Poly(key)
       [] i = 4 -> nonce[1]
       [] i = 5 -> Poly(nonce)
       [] i = 6 -> Len(nonce) % 256
       [] i = 7 -> Len(ciphertext) % 256
       [] i = 8 -> Poly(ciphertext)
       [] OTHER -> (key[1] + nonce[1] + i) % 256]

\* tag lengths decipher.setAuthTag accepts for GCM
ValidGcmTagLengths == {4, 8, 12, 13, 14, 15, 16}

(* --------------------- crypto/encryption.ts --------------------------- *)
\* encrypt that hands back a second random nonce instead of the one the cipher
\* was created with
encrypt_otherNonce(plaintext, key, draw) ==
  IF Len(key) # AES_KEY_SIZE THEN Err("InvalidKeyLength")
  ELSE LET nonce == RandomBytes(AES_NONCE_SIZE, draw)
           ciphertext == GcmEncryptBytes(key, nonce, plaintext)
       IN Ok([ciphertext |-> ciphertext,
              nonce |-> RandomBytes(AES_NONCE_SIZE, draw + 100),
              tag |-> GcmTag(key, nonce, ciphertext)])

\* encrypt that uses one constant nonce instead of drawing one per call
encrypt_fixedNonce(plaintext, key, draw) ==
  IF Len(key) # AES_KEY_SIZE THEN Err("InvalidKeyLength")
  ELSE LET nonce == [i \in 1..AES_NONCE_SIZE |-> 0]
           ciphertext == GcmEncryptBytes(key, nonce, plaintext)
       IN Ok([ciphertext |-> ciphertext,
              nonce |-> nonce,
              tag |-> GcmTag(key, nonce, ciphertext)])

\* encrypt(plaintext, key); draw is the CSPRNG draw that yields the nonce
encrypt(plaintext, key, draw) ==
  IF Len(key) # AES_KEY_SIZE THEN Err("InvalidKeyLength")
  ELSE LET nonce == RandomBytes(AES_NONCE_SIZE, draw)
           ciphertext == GcmEncryptBytes(key, nonce, plaintext)
       IN Ok([ciphertext |-> ciphertext,
              nonce |-> nonce,
              tag |-> GcmTag(key, nonce, ciphertext)])

\* decrypt whose decipher.final() never rejects the tag
decrypt_unauthenticated(encrypted, key) ==
  IF Len(key) # AES_KEY_SIZE THEN Err("InvalidKeyLength")
  ELSE IF Len(encrypted.nonce) = 0 THEN Err("InvalidIV")
  ELSE IF Len(encrypted.tag) \notin ValidGcmTagLengths THEN Err("InvalidAuthTagLength")
  ELSE Ok(GcmDecryptBytes(key, encrypted.nonce, encrypted.ciphertext))

\* decrypt(encrypted, key)
decrypt(encrypted, key) ==
  IF Len(key) # AES_KEY_SIZE THEN Err("InvalidKeyLength")
  ELSE IF Len(encrypted.nonce) = 0 THEN Err("InvalidIV")
  ELSE IF Len(encrypted.tag) \notin ValidGcmTagLengths THEN Err("InvalidAuthTagLength")
  ELSE IF encrypted.tag =
          SubSeq(GcmTag(key, encrypted.nonce, encrypted.ciphertext), 1, Len(encrypted.tag))
       THEN Ok(GcmDecryptBytes(key, encrypted.nonce, encrypted.ciphertext))
       ELSE Err("DecryptionFailed")

\* generateDEK()
generateDEK(draw) == RandomBytes(AES_KEY_SIZE, draw)

(* --------------------- crypto/keyManager.ts --------------------------- *)
\* deriveKEK(password, salt)
deriveKEKWithSalt(password, salt) ==
  [key |-> Argon2Raw(password, salt, ARGON2_KEY_LENGTH), salt |-> salt]

\* deriveKEK without a salt that uses one constant salt instead of drawing one
deriveKEKFresh_constantSalt(password, draw) ==
  deriveKEKWithSalt(password, [i \in 1..SALT_SIZE |-> 0])

\* deriveKEK(password): salt omitted, drawn from the CSPRNG
deriveKEKFresh(password, draw) ==
  deriveKEKWithSalt(password, RandomBytes(SALT_SIZE, draw))

\* deriveKEK(password, salt?): saltBuffer = salt || crypto.randomBytes(SALT_SIZE)
deriveKEK(password, salt, draw) ==
  IF salt.omitted THEN deriveKEKFresh(password, draw)
  ELSE deriveKEKWithSalt(password, salt.bytes)

wrapDEK(dek, kek, draw) == encrypt(dek, kek, draw)

unwrapDEK(wrappedDEK, kek) == decrypt(wrappedDEK, kek)

\* generateWrappedDEK(kek): two draws, the DEK and the nonce
generateWrappedDEK(kek, draw) ==
  LET dek == generateDEK(draw)
      wrapped == wrapDEK(dek, kek, draw + 1)
  IN IF wrapped.ok THEN Ok([key |-> dek, wrapped |-> wrapped.val]) ELSE Err(wrapped.err)

\* rotateKEK whose loop pushes the wrapped DEK it was given, not the re-wrapped one
RECURSIVE rotateKEKLoop_pushesGiven(_, _, _, _, _, _)
rotateKEKLoop_pushesGiven(oldKEK, newKEK, wrappedDEKs, draw, i, reWrappedDEKs) ==
  IF i > Len(wrappedDEKs) THEN Ok(reWrappedDEKs)
  ELSE LET dek == unwrapDEK(wrappedDEKs[i], oldKEK)
       IN IF ~dek.ok THEN Err(dek.err)
          ELSE rotateKEKLoop_pushesGiven(oldKEK, newKEK, wrappedDEKs, draw, i + 1,
                                         Append(reWrappedDEKs, wrappedDEKs[i]))

\* the for-loop of rotateKEK from item i on; the first throw ends the call
RECURSIVE rotateKEKLoop(_, _, _, _, _, _)
rotateKEKLoop(oldKEK, newKEK, wrappedDEKs, draw, i, reWrappedDEKs) ==
  IF i > Len(wrappedDEKs) THEN Ok(reWrappedDEKs)
  ELSE LET dek == unwrapDEK(wrappedDEKs[i], oldKEK)
       IN IF ~dek.ok THEN Err(dek.err)
          ELSE LET newWrapped == wrapDEK(dek.val, newKEK, draw + i - 1)
               IN IF ~newWrapped.ok THEN Err(newWrapped.err)
                  ELSE rotateKEKLoop(oldKEK, newKEK, wrappedDEKs, draw, i + 1,
                                     Append(reWrappedDEKs, newWrapped.val))

\* rotateKEK(oldKEK, newKEK, wrappedDEKs); draw is the first nonce draw
rotateKEK(oldKEK, newKEK, wrappedDEKs, draw) ==
  rotateKEKLoop(oldKEK, newKEK, wrappedDEKs, draw, 1, <<>>)

\* verifyKEK that returns true whatever unwrapDEK does
verifyKEK_alwaysTrue(kek, testWrappedDEK) == TRUE

\* verifyKEK(kek, testWrappedDEK): try { unwrapDEK } catch { false }
verifyKEK(kek, testWrappedDEK) == unwrapDEK(testWrappedDEK, kek).ok

(* --------------------- crypto/keyRotation.ts -------------------------- *)
\* the map of rotateUserKEK with a try/catch that drops a DEK it cannot unwrap
RECURSIVE reWrapFrom_skipsFailed(_, _, _, _, _, _)
reWrapFrom_skipsFailed(oldKEK, newKEK, wrappedDEKs, draw, i, reWrappedDEKs) ==
  IF i > Len(wrappedDEKs) THEN Ok(reWrappedDEKs)
  ELSE LET dek == unwrapDEK(wrappedDEKs[i].wrappedDEK, oldKEK)
       IN IF ~dek.ok
          THEN reWrapFrom_skipsFailed(oldKEK, newKEK, wrappedDEKs, draw, i + 1, reWrappedDEKs)
          ELSE LET newWrapped == wrapDEK(dek.val, newKEK, draw + i - 1)
               IN IF ~newWrapped.ok THEN Err(newWrapped.err)
                  ELSE reWrapFrom_skipsFailed(oldKEK, newKEK, wrappedDEKs, draw, i + 1,
                         Append(reWrappedDEKs, [id |-> wrappedDEKs[i].id,
                                                wrappedDEK |-> newWrapped.val]))

\* wrappedDEKs.map(({id, wrappedDEK}) => ...) from item i on; a throw in
\* the callback ends the map and rejects the call
RECURSIVE reWrapFrom(_, _, _, _, _, _)
reWrapFrom(oldKEK, newKEK, wrappedDEKs, draw, i, reWrappedDEKs) ==
  IF i > Len(wrappedDEKs) THEN Ok(reWrappedDEKs)
  ELSE LET dek == unwrapDEK(wrappedDEKs[i].wrappedDEK, oldKEK)
       IN IF ~dek.ok THEN Err(dek.err)
          ELSE LET newWrapped == wrapDEK(dek.val, newKEK, draw + i - 1)
               IN IF ~newWrapped.ok THEN Err(newWrapped.err)
                  ELSE reWrapFrom(oldKEK, newKEK, wrappedDEKs, draw, i + 1,
                         Append(reWrappedDEKs,
                                [id |-> wrappedDEKs[i].id, wrappedDEK |-> newWrapped.val]))

\* rotateUserKEK that derives the new KEK with oldSalt instead of a fresh salt
rotateUserKEK_reusesSalt(oldPassword, newPassword, oldSalt, wrappedDEKs, draw) ==
  LET oldKEK == deriveKEKWithSalt(oldPassword, oldSalt)
      newKEK == deriveKEKWithSalt(newPassword, oldSalt)
      reWrappedDEKs == reWrapFrom(oldKEK.key, newKEK.key, wrappedDEKs, draw + 1, 1, <<>>)
  IN IF ~reWrappedDEKs.ok THEN Err(reWrappedDEKs.err)
     ELSE Ok([newKEK |-> newKEK, reWrappedDEKs |-> reWrappedDEKs.val])

\* rotateUserKEK(oldPassword, newPassword, oldSalt, wrappedDEKs): the first
\* draw is the new salt, the following ones the nonces
rotateUserKEK(oldPassword, newPassword, oldSalt, wrappedDEKs, draw) ==
  LET oldKEK == deriveKEKWithSalt(oldPassword, oldSalt)
      newKEK == deriveKEKFresh(newPassword, draw)
      reWrappedDEKs == reWrapFrom(oldKEK.key, newKEK.key, wrappedDEKs, draw + 1, 1, <<>>)
  IN IF ~reWrappedDEKs.ok THEN Err(reWrappedDEKs.err)
     ELSE Ok([newKEK |-> newKEK, reWrappedDEKs |-> reWrappedDEKs.val])

\* rotateKEKWithoutPassword(currentKEK, wrappedDEKs): the first draw is the
\* new random KEK
rotateKEKWithoutPassword(currentKEK, wrappedDEKs, draw) ==
  LET newKEK == RandomBytes(AES_KEY_SIZE, draw)
      reWrappedDEKs == reWrapFrom(currentKEK, newKEK, wrappedDEKs, draw + 1, 1, <<>>)
  IN IF ~reWrappedDEKs.ok THEN Err(reWrappedDEKs.err)
     ELSE Ok([newKEK |-> newKEK, reWrappedDEKs |-> reWrappedDEKs.val])

(* --------------------- crypto/deviceKeys.ts --------------------------- *)
generateDeviceKey(draw) == RandomBytes(DEVICE_KEY_SIZE, draw)

\* wrapKEKWithDeviceKey with its two arguments exchanged
wrapKEKWithDeviceKey_exchanged(kek, deviceKey, draw) == encrypt(deviceKey, kek, draw)

wrapKEKWithDeviceKey(kek, deviceKey, draw) == encrypt(kek, deviceKey, draw)

unwrapKEKWithDeviceKey(wrappedKEK, deviceKey) == decrypt(wrappedKEK, deviceKey)

wrapDeviceKeyWithKEK(deviceKey, kek, draw) == wrapDEK(deviceKey, kek, draw)

unwrapDeviceKeyWithKEK(wrappedDeviceKey, kek) == unwrapDEK(wrappedDeviceKey, kek)

(* ------------- crypto/encryption.ts: serialization -------------------- *)
\* serializeEncrypted that writes the tag ahead of the ciphertext
serializeEncrypted_tagFirst(encrypted) ==
  encrypted.nonce \o encrypted.tag \o encrypted.ciphertext

\* serializeEncrypted(encrypted): [nonce][ciphertext][tag]
serializeEncrypted(encrypted) ==
  encrypted.nonce \o encrypted.ciphertext \o encrypted.tag

\* deserializeEncrypted(data)
deserializeEncrypted(data) ==
  IF Len(data) < AES_NONCE_SIZE + AES_TAG_SIZE THEN Err("InvalidFormat")
  ELSE Ok([nonce |-> SubSeq(data, 1, AES_NONCE_SIZE),
           tag |-> SubSeq(data, Len(data) - AES_TAG_SIZE + 1, Len(data)),
           ciphertext |-> SubSeq(data, AES_NONCE_SIZE + 1, Len(data) - AES_TAG_SIZE)])


(* ====================================================================== *)
(* The key-manager workbench: one user's KEK, the wrapped DEKs of the     *)
(* user's items, one AEAD blob, and the outcome of the last call made.    *)
(* ====================================================================== *)
VARIABLES
  rng,    \* CSPRNG draws made so far
  kek,    \* the user's KEK: [pw, key, salt]
  items,  \* the user's items: [id, wrappedDEK, ciphertext]; dek, under, flipped
          \* record what was wrapped, under which KEK, and whether a bit was flipped
  rot,    \* the last rotation call and its outcome
  blob,   \* an encrypted blob, with the plaintext and key it came from
  out     \* the last decrypt / unwrapDEK / verifyKEK call and its outcome

cryptoVars == <<rng, kek, items, rot, blob, out>>

(* ------------------------------ storage --------------------------------- *)
\* The PostgreSQL tables that hold key material, the access tokens in
\* circulation and what a device keeps locally.
VARIABLES
  users,      \* rows of users: id, email, password_hash, kek_salt, key_version, ...
  devices,    \* rows of devices: id, user_id, device_key_wrapped, fingerprint, trusted
  sessions,   \* rows of sessions: id, user_id, device_id, refresh_token_hash,
              \* access_token_jti; expired stands for expires_at <= NOW()
  user_keys,  \* rows of user_keys: id, user_id, kek_salt, key_version
  data_keys,  \* rows of data_keys: id, record_id, dek_wrapped, key_id
  tokens,     \* access tokens issued and not yet expired: user_id, device_id, jti,
              \* each with the refresh token returned along with it
  local,      \* what each device keeps: device_id, deviceKey, wrappedKEK
  ctr,        \* uuidv4 / randomBytes draws made so far
  owner,      \* history: for each registered user id, the password and the KEK
  erased,     \* history: user ids whose deleteAccount has completed
  revoked,    \* history: ids of the devices revoked by DELETE /devices/:device_id
              \* and of the sessions revoked by DELETE /sessions/:session_id,
              \* revokeAllSessions or activatePanicMode
  unlock      \* outcome of the last key operation a device ran locally, and
              \* for an unlock whether the device had been revoked by then

storeVars == <<users, devices, sessions, user_keys, data_keys, tokens, local,
               ctr, owner, erased, revoked, unlock>>

(* --------------------------- function calls ---------------------------- *)
\* The functions that keep no state are exercised as a unit test does: one
\* call per run, on inputs drawn from small sets.
VARIABLES
  call        \* the last such call: its name, its inputs and what it returned

fnVars == <<call>>

(* ---------------------------- token refresh ----------------------------- *)
VARIABLES
  pending,    \* POST /refresh requests between their SELECT and their UPDATE:
              \* the token presented and the session row the loop stopped at
  refreshed   \* history: for each POST /refresh answered with new tokens, the
              \* token presented and the refresh token returned

refreshVars == <<pending, refreshed>>

(* -------------------------------- vault --------------------------------- *)
VARIABLES
  records,    \* rows of records: id, user_id, encrypted_data; deleted stands
              \* for deleted_at IS NOT NULL
  sent        \* history: for each POST /records, the id the record got and the
              \* dek_wrapped the request carried

vaultVars == <<records, sent>>

(* ------------------------------- sharing -------------------------------- *)
VARIABLES
  shares,      \* rows of shares: id, owner_id, resource_id, token; expired
               \* stands for expires_at < now
  permissions, \* rows of permissions: id, share_id, action, conditions
  checks       \* the checkShareAccess calls made: the token and request each
               \* was given, where it stands between its queries, and what it
               \* returned

shareVars == <<shares, permissions, checks>>

(* ------------------------------ audit log ------------------------------- *)
VARIABLES
  audit_logs,  \* rows of audit_logs: id, user_id, event_type, resource_type,
               \* resource_id, action, timestamp, hash_chain
  logging,     \* logEvent calls between their SELECT and their INSERT: the
               \* event, the id it got and the previous hash that was read
  verified,    \* what the last verifyAuditLogIntegrity call returned
  seq          \* the clock new Date() reads and the source of uuidv4()

auditVars == <<audit_logs, logging, verified, seq>>

None == [op |-> "none"]

\* two keys drawn before the run starts (generateDEK() in a test's setup)
keyA == generateDEK(1)
keyB == generateDEK(2)

\* byte strings handed to encrypt: empty, one byte, a few bytes, a DEK
Plaintexts == {<<>>, <<72>>, <<104, 105, 33>>, generateDEK(3)}

\* the longest field of a blob built from Plaintexts
MaxBlobLen == AES_KEY_SIZE

\* byte with bit b flipped (x ^= 1 << b)
FlipBit(byte, b) ==
  IF (byte \div (2 ^ b)) % 2 = 1 THEN byte - 2 ^ b ELSE byte + 2 ^ b

\* encrypted with one bit of encrypted[field][pos] flipped
FlipIn(encrypted, field, pos, b) ==
  [encrypted EXCEPT ![field][pos] = FlipBit(@, b)]

Idle == rot.op = "none" /\ out.op = "none"

\* KEKs a caller may present: the user's, one per password under the user's
\* salt, and an unrelated random key
CandidateKEKs ==
  {kek.key, keyA} \cup {deriveKEKWithSalt(p, kek.salt).key : p \in Passwords}

wrappedOf(its) == [i \in 1..Len(its) |-> its[i].wrappedDEK]

idWrappedOf(its) == [i \in 1..Len(its) |-> [id |-> its[i].id, wrappedDEK |-> its[i].wrappedDEK]]

CryptoInit ==
  /\ rng = 4
  /\ LET k == deriveKEKFresh(1, 4) IN kek = [pw |-> 1, key |-> k.key, salt |-> k.salt]
  /\ items = <<>>
  /\ rot = None
  /\ blob = None
  /\ out = None

\* the payload every item holds, encrypted under the item's DEK
ItemData == <<104, 101, 108, 108, 111>>

\* a new item: generateWrappedDEK(kek), payload encrypted with the DEK
GenerateItem ==
  /\ Idle /\ blob.op = "none"
  /\ Len(items) < MaxItems
  /\ LET g == generateWrappedDEK(kek.key, rng + 1)
     IN items' = Append(items, [id |-> rng + 1, dek |-> g.val.key,
                                wrappedDEK |-> g.val.wrapped,
                                ciphertext |-> encrypt(ItemData, g.val.key, rng + 3).val,
                                under |-> kek.key, flipped |-> FALSE])
  /\ rng' = rng + 3
  /\ UNCHANGED <<kek, rot, blob, out>>
  /\ UNCHANGED <<storeVars, fnVars, refreshVars, vaultVars, shareVars, auditVars>>

\* an item whose DEK is wrapped under another KEK of the same password
\* (a wrapped DEK left over from an earlier salt)
StaleItem ==
  /\ Idle /\ blob.op = "none"
  /\ Len(items) < MaxItems
  /\ \A i \in 1..Len(items) : items[i].under = kek.key /\ ~items[i].flipped
  /\ LET stale == deriveKEKFresh(kek.pw, rng + 1)
         g == generateWrappedDEK(stale.key, rng + 2)
     IN items' = Append(items, [id |-> rng + 2, dek |-> g.val.key,
                                wrappedDEK |-> g.val.wrapped,
                                ciphertext |-> encrypt(ItemData, g.val.key, rng + 4).val,
                                under |-> stale.key, flipped |-> FALSE])
  /\ rng' = rng + 4
  /\ UNCHANGED <<kek, rot, blob, out>>
  /\ UNCHANGED <<storeVars, fnVars, refreshVars, vaultVars, shareVars, auditVars>>

\* a stored wrapped DEK with one bit of its ciphertext or tag flipped
CorruptItem(i, field, pos, b) ==
  /\ Idle /\ blob.op = "none"
  /\ pos \in 1..Len(items[i].wrappedDEK[field])
  /\ \A j \in 1..Len(items) : items[j].under = kek.key /\ ~items[j].flipped
  /\ items' = [items EXCEPT ![i].wrappedDEK = FlipIn(@, field, pos, b),
                            ![i].flipped = TRUE]
  /\ UNCHANGED <<rng, kek, rot, blob, out>>
  /\ UNCHANGED <<storeVars, fnVars, refreshVars, vaultVars, shareVars, auditVars>>

\* rotateKEK(oldKEK, newKEK, wrappedDEKs)
RotateKEK(oldKEK, newKEK) ==
  /\ Idle /\ blob.op = "none"
  /\ rot' = [op |-> "rotateKEK", oldKEK |-> oldKEK, newKEK |-> newKEK, given |-> items,
             res |-> rotateKEK(oldKEK, newKEK, wrappedOf(items), rng + 1)]
  /\ rng' = rng + Len(items)
  /\ UNCHANGED <<kek, items, blob, out>>
  /\ UNCHANGED <<storeVars, fnVars, refreshVars, vaultVars, shareVars, auditVars>>

\* rotateUserKEK(oldPassword, newPassword, oldSalt, wrappedDEKs)
RotateUserKEK(oldPassword, newPassword) ==
  /\ Idle /\ blob.op = "none"
  /\ rot' = [op |-> "rotateUserKEK", oldPassword |-> oldPassword,
             newPassword |-> newPassword, oldSalt |-> kek.salt,
             oldKEK |-> deriveKEKWithSalt(oldPassword, kek.salt).key, given |-> items,
             res |-> rotateUserKEK(oldPassword, newPassword, kek.salt,
                                   idWrappedOf(items), rng + 1)]
  /\ rng' = rng + 1 + Len(items)
  /\ UNCHANGED <<kek, items, blob, out>>
  /\ UNCHANGED <<storeVars, fnVars, refreshVars, vaultVars, shareVars, auditVars>>

\* rotateKEKWithoutPassword(currentKEK, wrappedDEKs)
RotateKEKWithoutPassword(currentKEK) ==
  /\ Idle /\ blob.op = "none"
  /\ rot' = [op |-> "rotateKEKWithoutPassword", oldKEK |-> currentKEK, given |-> items,
             res |-> rotateKEKWithoutPassword(currentKEK, idWrappedOf(items), rng + 1)]
  /\ rng' = rng + 1 + Len(items)
  /\ UNCHANGED <<kek, items, blob, out>>
  /\ UNCHANGED <<storeVars, fnVars, refreshVars, vaultVars, shareVars, auditVars>>

\* unwrapDEK(items[i].wrappedDEK, key)
UnwrapItem(i, key) ==
  /\ Idle /\ blob.op = "none"
  /\ out' = [op |-> "unwrapDEK", item |-> i, key |-> key,
             res |-> unwrapDEK(items[i].wrappedDEK, key)]
  /\ UNCHANGED <<rng, kek, items, rot, blob>>
  /\ UNCHANGED <<storeVars, fnVars, refreshVars, vaultVars, shareVars, auditVars>>

\* verifyKEK(key, items[i].wrappedDEK)
VerifyItem(i, key) ==
  /\ Idle /\ blob.op = "none"
  /\ out' = [op |-> "verifyKEK", item |-> i, key |-> key,
             res |-> verifyKEK(key, items[i].wrappedDEK)]
  /\ UNCHANGED <<rng, kek, items, rot, blob>>
  /\ UNCHANGED <<storeVars, fnVars, refreshVars, vaultVars, shareVars, auditVars>>

\* encrypt(plaintext, key)
Encrypt(plaintext, key) ==
  /\ Idle /\ blob.op = "none" /\ items = <<>>
  /\ LET e == encrypt(plaintext, key, rng + 1)
     IN blob' = [op |-> "encrypt", pt |-> plaintext, key |-> key, enc |-> e.val,
                 flipped |-> "none"]
  /\ rng' = rng + 1
  /\ UNCHANGED <<kek, items, rot, out>>
  /\ UNCHANGED <<storeVars, fnVars, refreshVars, vaultVars, shareVars, auditVars>>

\* tampered[field][pos] ^= 1 << b on a copy of the blob
FlipBlob(field, pos, b) ==
  /\ Idle /\ blob.op = "encrypt" /\ blob.flipped = "none"
  /\ pos \in 1..Len(blob.enc[field])
  /\ blob' = [blob EXCEPT !.enc = FlipIn(@, field, pos, b), !.flipped = field]
  /\ UNCHANGED <<rng, kek, items, rot, out>>
  /\ UNCHANGED <<storeVars, fnVars, refreshVars, vaultVars, shareVars, auditVars>>

\* decrypt(blob, key)
Decrypt(key) ==
  /\ Idle /\ blob.op = "encrypt"
  /\ out' = [op |-> "decrypt", key |-> key, res |-> decrypt(blob.enc, key)]
  /\ UNCHANGED <<rng, kek, items, rot, blob>>
  /\ UNCHANGED <<storeVars, fnVars, refreshVars, vaultVars, shareVars, auditVars>>

CryptoNext ==
  \/ GenerateItem
  \/ StaleItem
  \/ \E i \in 1..Len(items), field \in {"ciphertext", "tag"}, pos \in {1, AES_TAG_SIZE},
        b \in {0, 7} : CorruptItem(i, field, pos, b)
  \/ \E oldKEK \in {kek.key, keyA}, newKEK \in {kek.key, keyA, keyB} : RotateKEK(oldKEK, newKEK)
  \/ \E oldPassword \in Passwords, newPassword \in Passwords :
        RotateUserKEK(oldPassword, newPassword)
  \/ \E currentKEK \in {kek.key, keyA} : RotateKEKWithoutPassword(currentKEK)
  \/ \E i \in 1..Len(items), key \in CandidateKEKs : UnwrapItem(i, key)
  \/ \E i \in 1..Len(items), key \in CandidateKEKs : VerifyItem(i, key)
  \/ \E plaintext \in Plaintexts, key \in {kek.key, keyA} : Encrypt(plaintext, key)
  \/ \E field \in {"ciphertext", "tag"}, pos \in 1..MaxBlobLen, b \in 0..7 :
        FlipBlob(field, pos, b)
  \/ \E key \in {kek.key, keyA, keyB} : Decrypt(key)

(* --------------------------- server handlers --------------------------- *)
Emails == {1}

Fingerprints == {1, 2}

\* argon2.hash(password, ...): a PHC string; pw is what it was computed from
hashPassword(password) == [phc |-> TRUE, pw |-> password]

\* password_hash = '' of a tombstoned account: not a PHC string
EmptyHash == [phc |-> FALSE, pw |-> 0]

\* argon2.verify(hash, plain): resolves to whether plain hashes to hash, and
\* rejects when hash is not a PHC string
Argon2Verify(hash, plain) ==
  IF hash.phc THEN [threw |-> FALSE, val |-> hash.pw = plain]
  ELSE [threw |-> TRUE, val |-> FALSE]

\* verifyPassword(password, hash): await argon2.verify(hash, password) and
\* return true; false only when verify throws, which it does for a hash that
\* is not a PHC string. The boolean argon2.verify resolves to is dropped.
verifyPassword(password, hash) == hash.phc

\* authenticatePassword(password, passwordHash).success
authenticatePassword(password, passwordHash) == verifyPassword(password, passwordHash)

\* initializeUserKeys(password) = deriveKEK(password)
initializeUserKeys(password, draw) == deriveKEKFresh(password, draw)

\* hashRefreshToken(token): argon2.hash, a PHC string; pw is what it was computed from
hashRefreshToken(token) == [phc |-> TRUE, pw |-> token]

\* verifyRefreshToken(token, hash): await argon2.verify(hash, token) and return
\* true; false only when verify throws. What verify resolves to is not read.
verifyRefreshToken(token, hash) == ~Argon2Verify(hash, token).threw

\* authenticate middleware: the bearer token verifies; no table is consulted
authenticate(token) == token \in tokens

StoreInit ==
  /\ users = {} /\ devices = {} /\ sessions = {} /\ user_keys = {} /\ data_keys = {}
  /\ tokens = {} /\ local = {}
  /\ ctr = 0
  /\ owner = {} /\ erased = {} /\ revoked = {}
  /\ unlock = None

\* POST /register
Register(email, password, fingerprint) ==
  /\ Cardinality(tokens) < MaxSessions
  /\ ~\E u \in users : u.email = email
  /\ LET k == initializeUserKeys(password, ctr + 1)
         deviceKey == generateDeviceKey(ctr + 2)
         deviceKeyWrapped == wrapDeviceKeyWithKEK(deviceKey, k.key, ctr + 3)
         userId == ctr + 4
         deviceId == ctr + 5
         sessionId == ctr + 6
         refreshToken == ctr + 7
     IN /\ users' = users \cup {[id |-> userId, email |-> email,
                                  password_hash |-> hashPassword(password),
                                  kek_salt |-> k.salt, key_version |-> 1,
                                  recovery_codes_hash |-> TRUE]}
        /\ devices' = devices \cup {[id |-> deviceId, user_id |-> userId,
                                     device_key_wrapped |->
                                       serializeEncrypted(deviceKeyWrapped.val),
                                     device_fingerprint |-> fingerprint,
                                     trusted |-> TRUE]}
        /\ sessions' = sessions \cup {[id |-> sessionId, user_id |-> userId,
                                       device_id |-> deviceId,
                                       refresh_token_hash |-> hashRefreshToken(refreshToken),
                                       access_token_jti |-> sessionId,
                                       expired |-> FALSE]}
        /\ tokens' = tokens \cup {[user_id |-> userId, device_id |-> deviceId,
                                   jti |-> sessionId, refresh |-> refreshToken]}
        /\ owner' = owner \cup {[user_id |-> userId, password |-> password, kek |-> k.key]}
  /\ ctr' = ctr + 7
  /\ UNCHANGED <<user_keys, data_keys, local, erased, revoked, unlock>>
  /\ UNCHANGED <<cryptoVars, fnVars, refreshVars, vaultVars, shareVars, auditVars>>

\* POST /login
Login(email, password, fingerprint) ==
  /\ Cardinality(tokens) < MaxSessions
  /\ \E user \in users :
       /\ user.email = email
       /\ authenticatePassword(password, user.password_hash)
       /\ LET known == {d \in devices : d.user_id = user.id
                                        /\ d.device_fingerprint = fingerprint}
              deviceId == IF known # {} THEN (CHOOSE d \in known : TRUE).id ELSE ctr + 1
          IN /\ devices' = IF known # {} THEN devices
                           ELSE devices \cup {[id |-> deviceId, user_id |-> user.id,
                                               device_key_wrapped |-> <<>>,
                                               device_fingerprint |-> fingerprint,
                                               trusted |-> FALSE]}
             /\ sessions' = sessions \cup {[id |-> ctr + 3, user_id |-> user.id,
                                            device_id |-> deviceId,
                                            refresh_token_hash |-> hashRefreshToken(ctr + 4),
                                            access_token_jti |-> ctr + 3,
                                            expired |-> FALSE]}
             /\ tokens' = tokens \cup {[user_id |-> user.id, device_id |-> deviceId,
                                        jti |-> ctr + 3, refresh |-> ctr + 4]}
  /\ ctr' = ctr + 4
  /\ UNCHANGED <<users, user_keys, data_keys, local, owner, erased, revoked, unlock>>
  /\ UNCHANGED <<cryptoVars, fnVars, refreshVars, vaultVars, shareVars, auditVars>>

\* DELETE /devices/:device_id
RevokeDevice(token, deviceId) ==
  /\ authenticate(token)
  /\ \E d \in devices : d.id = deviceId /\ d.user_id = token.user_id
  /\ sessions' = {x \in sessions : ~(x.device_id = deviceId /\ x.user_id = token.user_id)}
  /\ devices' = {d \in devices : ~(d.id = deviceId /\ d.user_id = token.user_id)}
  /\ revoked' = revoked \cup {deviceId}
  /\ UNCHANGED <<users, user_keys, data_keys, tokens, local, ctr, owner, erased,
                 unlock>>
  /\ UNCHANGED <<cryptoVars, fnVars, refreshVars, vaultVars, shareVars, auditVars>>

\* DELETE /sessions/:session_id
RevokeSession(token, sessionId) ==
  /\ authenticate(token)
  /\ \E x \in sessions : x.id = sessionId /\ x.user_id = token.user_id
  /\ sessions' = {x \in sessions : ~(x.id = sessionId /\ x.user_id = token.user_id)}
  /\ revoked' = revoked \cup {sessionId}
  /\ UNCHANGED <<users, devices, user_keys, data_keys, tokens, local, ctr, owner, erased,
                 unlock>>
  /\ UNCHANGED <<cryptoVars, fnVars, refreshVars, vaultVars, shareVars, auditVars>>

\* revokeAllSessions(userId), a response action to an alert
RevokeAllSessions(userId) ==
  /\ \E x \in sessions : x.user_id = userId
  /\ sessions' = {x \in sessions : x.user_id # userId}
  /\ revoked' = revoked \cup {x.id : x \in {y \in sessions : y.user_id = userId}}
  /\ UNCHANGED <<users, devices, user_keys, data_keys, tokens, local, ctr, owner, erased,
                 unlock>>
  /\ UNCHANGED <<cryptoVars, fnVars, refreshVars, vaultVars, shareVars, auditVars>>

\* POST /dsr/delete-account -> deleteAccount(userId, password)
DeleteAccount(token, password) ==
  /\ authenticate(token)
  /\ \E user \in users :
       /\ user.id = token.user_id
       /\ verifyPassword(password, user.password_hash)
       /\ LET gone == {k.id : k \in {k \in user_keys : k.user_id = user.id}}
          IN /\ user_keys' = {k \in user_keys : k.user_id # user.id}
             /\ data_keys' = {k \in data_keys : k.key_id \notin gone}
       /\ sessions' = {x \in sessions : x.user_id # user.id}
       /\ devices' = {d \in devices : d.user_id # user.id}
       /\ users' = (users \ {user}) \cup
                     {[user EXCEPT !.email = 0 - user.id, !.password_hash = EmptyHash,
                                   !.recovery_codes_hash = FALSE]}
       /\ records' = {IF r.user_id = user.id THEN [r EXCEPT !.deleted = TRUE] ELSE r :
                       r \in records}
       /\ erased' = erased \cup {user.id}
  /\ UNCHANGED <<tokens, local, ctr, owner, revoked, unlock, sent>>
  /\ UNCHANGED <<cryptoVars, fnVars, refreshVars, shareVars, auditVars>>

\* Device onboarding (API.md 5.2, steps 2-3): the device derives the KEK from
\* the password and the user's salt, unwraps its device key from the server's
\* device_key_wrapped and keeps the KEK wrapped under the device key
DeviceOnboard(token, password) ==
  /\ authenticate(token)
  /\ ~\E l \in local : l.device_id = token.device_id
  /\ \E user \in users, d \in devices :
       /\ user.id = token.user_id /\ d.id = token.device_id /\ d.user_id = user.id
       /\ LET k == deriveKEKWithSalt(password, user.kek_salt)
              stored == deserializeEncrypted(d.device_key_wrapped)
              deviceKey == IF stored.ok THEN unwrapDeviceKeyWithKEK(stored.val, k.key)
                           ELSE Err(stored.err)
              wrappedKEK == IF deviceKey.ok
                            THEN wrapKEKWithDeviceKey(k.key, deviceKey.val, ctr + 1)
                            ELSE Err(deviceKey.err)
          IN /\ local' = IF wrappedKEK.ok
                         THEN local \cup {[device_id |-> d.id, user_id |-> user.id,
                                           deviceKey |-> deviceKey.val,
                                           wrappedKEK |-> wrappedKEK.val]}
                         ELSE local
             /\ unlock' = [op |-> "onboard", device_id |-> d.id, user_id |-> user.id,
                           res |-> IF wrappedKEK.ok THEN Ok(<<>>) ELSE Err(wrappedKEK.err)]
             /\ ctr' = IF wrappedKEK.ok THEN ctr + 1 ELSE ctr
  /\ UNCHANGED <<users, devices, sessions, user_keys, data_keys, tokens, owner,
                 erased, revoked>>
  /\ UNCHANGED <<cryptoVars, fnVars, refreshVars, vaultVars, shareVars, auditVars>>

\* A later session on the device (API.md 5.2, step 4): the KEK is unwrapped
\* from what the device kept, without the server
DeviceUnlock(deviceId) ==
  /\ \E l \in local :
       /\ l.device_id = deviceId
       /\ unlock' = [op |-> "unlock", device_id |-> deviceId, user_id |-> l.user_id,
                     revoked |-> deviceId \in revoked,
                     res |-> unwrapKEKWithDeviceKey(l.wrappedKEK, l.deviceKey)]
  /\ unlock' # unlock
  /\ UNCHANGED <<users, devices, sessions, user_keys, data_keys, tokens, local,
                 ctr, owner, erased, revoked>>
  /\ UNCHANGED <<cryptoVars, fnVars, refreshVars, vaultVars, shareVars, auditVars>>

\* a refresh token nobody was issued, and the ones clients hold
RefreshTokens == {0} \cup {t.refresh : t \in tokens}

\* POST /refresh up to the end of its loop: SELECT the unexpired sessions
\* ORDER BY created_at DESC and stop at the first whose hash verifies; with
\* none the answer is 401 INVALID_TOKEN and nothing changes
RefreshSelect(token) ==
  /\ Cardinality(pending) + Cardinality(refreshed) < MaxRefresh
  /\ LET rows == {s \in sessions : ~s.expired}
         valid == {s \in rows : verifyRefreshToken(token, s.refresh_token_hash)}
     IN /\ valid # {}
        /\ LET session == CHOOSE s \in valid : \A o \in valid : o.id <= s.id
           IN pending' = pending \cup {[token |-> token, session |-> session]}
  /\ UNCHANGED <<users, devices, sessions, user_keys, data_keys, tokens, local,
                 ctr, owner, erased, revoked, unlock, refreshed>>
  /\ UNCHANGED <<cryptoVars, fnVars, vaultVars, shareVars, auditVars>>

\* POST /refresh from createAuthTokens on: UPDATE the session row by id and
\* answer with the new tokens
RefreshUpdate(p) ==
  /\ p \in pending
  /\ LET jti == ctr + 1
         newRefreshToken == ctr + 2
     IN /\ sessions' = {IF s.id = p.session.id
                         THEN [s EXCEPT !.refresh_token_hash = hashRefreshToken(newRefreshToken),
                                        !.access_token_jti = jti,
                                        !.expired = FALSE]
                         ELSE s : s \in sessions}
        /\ tokens' = tokens \cup {[user_id |-> p.session.user_id,
                                   device_id |-> p.session.device_id,
                                   jti |-> jti, refresh |-> newRefreshToken]}
        /\ refreshed' = refreshed \cup {[token |-> p.token, refresh |-> newRefreshToken]}
  /\ pending' = pending \ {p}
  /\ ctr' = ctr + 2
  /\ UNCHANGED <<users, devices, user_keys, data_keys, local, owner, erased, revoked,
                 unlock>>
  /\ UNCHANGED <<cryptoVars, fnVars, vaultVars, shareVars, auditVars>>

\* time passes beyond a session's expires_at
ExpireSession(s) ==
  /\ s \in sessions /\ ~s.expired
  /\ sessions' = (sessions \ {s}) \cup {[s EXCEPT !.expired = TRUE]}
  /\ UNCHANGED <<users, devices, user_keys, data_keys, tokens, local, ctr, owner,
                 erased, revoked, unlock>>
  /\ UNCHANGED <<cryptoVars, fnVars, refreshVars, vaultVars, shareVars, auditVars>>

RefreshInit == pending = {} /\ refreshed = {}

\* POST /vault/records. The client draws a DEK, encrypts the record under it
\* and wraps the DEK under its KEK; the request carries encrypted_data and
\* dek_wrapped. The handler inserts the record and does nothing with
\* dek_wrapped.
CreateRecord(token) ==
  /\ authenticate(token)
  /\ Cardinality(records) < MaxItems
  /\ \E o \in owner :
       /\ o.user_id = token.user_id
       /\ LET dek == generateDEK(ctr + 1)
              encrypted_data == serializeEncrypted(encrypt(ItemData, dek, ctr + 2).val)
              dek_wrapped == serializeEncrypted(wrapDEK(dek, o.kek, ctr + 3).val)
              recordId == ctr + 4
          IN /\ records' = records \cup {[id |-> recordId, user_id |-> token.user_id,
                                           encrypted_data |-> encrypted_data,
                                           deleted |-> FALSE]}
             /\ sent' = sent \cup {[record_id |-> recordId, dek_wrapped |-> dek_wrapped]}
  /\ ctr' = ctr + 4
  /\ UNCHANGED <<users, devices, sessions, user_keys, data_keys, tokens, local, owner,
                 erased, revoked, unlock>>
  /\ UNCHANGED <<cryptoVars, fnVars, refreshVars, shareVars, auditVars>>

\* DELETE /vault/records/:id: deleteRecord sets deleted_at
DeleteRecord(token, recordId) ==
  /\ authenticate(token)
  /\ \E r \in records :
       /\ r.id = recordId /\ r.user_id = token.user_id /\ ~r.deleted
       /\ records' = (records \ {r}) \cup {[r EXCEPT !.deleted = TRUE]}
  /\ UNCHANGED <<sent>>
  /\ UNCHANGED storeVars
  /\ UNCHANGED <<cryptoVars, fnVars, refreshVars, shareVars, auditVars>>

VaultInit == records = {} /\ sent = {}

(* ------------------------------- sharing -------------------------------- *)
Actions == {"read", "download"}

ResourceIds == {1, 2}

\* the permissions a share is created with: conditions carry oneTime only
PermissionLists ==
  { <<[action |-> "read", conditions |-> [oneTime |-> TRUE, used |-> FALSE]]>>,
    <<[action |-> "read", conditions |-> [oneTime |-> FALSE, used |-> FALSE]]>>,
    <<[action |-> "download", conditions |-> [oneTime |-> TRUE, used |-> FALSE]],
      [action |-> "read", conditions |-> [oneTime |-> FALSE, used |-> FALSE]]>> }

AccessRequests == [resourceId : ResourceIds, action : Actions]

ShareTokens == {0} \cup {s.token : s \in shares}

\* checkPermission(permission, request).allowed, for conditions without time,
\* IP, device or approval restrictions
checkPermission(permission, request) ==
  IF permission.action # request.action THEN FALSE
  ELSE IF permission.conditions.oneTime /\ permission.conditions.used THEN FALSE
  ELSE TRUE

\* createShare(data): one transaction inserts the share and its permissions
CreateShare(owner_id, resource_id, perms) ==
  /\ Cardinality(shares) < MaxShares /\ ctr < MaxCtr
  /\ \E u \in users : u.id = owner_id
  /\ LET shareId == ctr + 1
         token == ctr + 2
     IN /\ shares' = shares \cup {[id |-> shareId, owner_id |-> owner_id,
                                   resource_id |-> resource_id, token |-> token,
                                   expired |-> FALSE]}
        /\ permissions' = permissions \cup
             {[id |-> ctr + 2 + i, share_id |-> shareId, action |-> perms[i].action,
               conditions |-> perms[i].conditions] : i \in 1..Len(perms)}
        /\ ctr' = ctr + 2 + Len(perms)
  /\ UNCHANGED <<users, devices, sessions, user_keys, data_keys, tokens, local, owner,
                 erased, revoked, unlock, checks>>
  /\ UNCHANGED <<cryptoVars, fnVars, refreshVars, vaultVars, auditVars>>

\* time passes beyond a share's expires_at
ExpireShare(s) ==
  /\ s \in shares /\ ~s.expired
  /\ shares' = (shares \ {s}) \cup {[s EXCEPT !.expired = TRUE]}
  /\ UNCHANGED <<permissions, checks>>
  /\ UNCHANGED <<cryptoVars, storeVars, fnVars, refreshVars, vaultVars, auditVars>>

\* getShareByToken(token): the rows it finds (token is UNIQUE), none if expired
getShareByToken(token) == {s \in shares : s.token = token /\ ~s.expired}

\* checkShareAccess(token, request) up to its await of getSharePermissions
CheckShareAccessShare(token, request) ==
  /\ Cardinality(checks) < MaxChecks
  /\ LET id == Cardinality(checks) + 1
         found == getShareByToken(token)
         returns == [id |-> id, token |-> token, request |-> request, pc |-> "returned",
                     share |-> 0, permission |-> 0, oneTime |-> FALSE, allowed |-> FALSE]
     IN IF found = {} THEN checks' = checks \cup {returns}
        ELSE LET share == CHOOSE s \in found : TRUE
             IN IF share.resource_id # request.resourceId
                THEN checks' = checks \cup {returns}
                ELSE checks' = checks \cup
                       {[returns EXCEPT !.pc = "permissions", !.share = share.id]}
  /\ UNCHANGED <<shares, permissions>>
  /\ UNCHANGED <<cryptoVars, storeVars, fnVars, refreshVars, vaultVars, auditVars>>

\* checkShareAccess from the rows getSharePermissions returned up to its await
\* of the UPDATE, or to its return. The SELECT has no ORDER BY: any permission
\* that allows the request may be the first the loop meets.
CheckShareAccessPermissions(c) ==
  /\ c \in checks /\ c.pc = "permissions"
  /\ LET rows == {p \in permissions : p.share_id = c.share}
         allowing == {p \in rows : checkPermission(p, c.request)}
     IN IF allowing = {}
        THEN checks' = (checks \ {c}) \cup {[c EXCEPT !.pc = "returned"]}
        ELSE \E p \in allowing :
               checks' = (checks \ {c}) \cup
                 {[c EXCEPT !.pc = IF p.conditions.oneTime /\ ~p.conditions.used
                                   THEN "update" ELSE "returned",
                            !.permission = p.id,
                            !.oneTime = p.conditions.oneTime,
                            !.allowed = TRUE]}
  /\ UNCHANGED <<shares, permissions>>
  /\ UNCHANGED <<cryptoVars, storeVars, fnVars, refreshVars, vaultVars, auditVars>>

\* checkShareAccess from its UPDATE of conditions.used to its return
CheckShareAccessUpdate(c) ==
  /\ c \in checks /\ c.pc = "update"
  /\ permissions' =
       {IF p.share_id = c.share /\ p.action = c.request.action
        THEN [p EXCEPT !.conditions.used = TRUE] ELSE p : p \in permissions}
  /\ checks' = (checks \ {c}) \cup {[c EXCEPT !.pc = "returned"]}
  /\ UNCHANGED shares
  /\ UNCHANGED <<cryptoVars, storeVars, fnVars, refreshVars, vaultVars, auditVars>>

\* activatePanicMode(userId): one transaction deletes the user's sessions and
\* shares; permissions go with their share (ON DELETE CASCADE)
ActivatePanicMode(userId) ==
  /\ (\E x \in sessions : x.user_id = userId) \/ (\E s \in shares : s.owner_id = userId)
  /\ sessions' = {x \in sessions : x.user_id # userId}
  /\ revoked' = revoked \cup {x.id : x \in {y \in sessions : y.user_id = userId}}
  /\ shares' = {s \in shares : s.owner_id # userId}
  /\ permissions' =
       {p \in permissions : \E s \in shares : s.id = p.share_id /\ s.owner_id # userId}
  /\ UNCHANGED <<users, devices, user_keys, data_keys, tokens, local, ctr, owner, erased,
                 unlock, checks>>
  /\ UNCHANGED <<cryptoVars, fnVars, refreshVars, vaultVars, auditVars>>

ShareInit == shares = {} /\ permissions = {} /\ checks = {}

(* ------------------------------ audit log ------------------------------- *)
\* a JavaScript value: undefined, null, or a string, number or Date
Undefined == [k |-> "undefined"]

Null == [k |-> "null"]

Val(v) == [k |-> "value", v |-> v]

\* x || null
OrNull(x) == IF x = Undefined THEN Null ELSE x

\* JSON.stringify of an object literal, given as its <<key, value>> pairs in
\* order: a key whose value is undefined is left out, null is written
JSONStringify(pairs) == SelectSeq(pairs, LAMBDA pair : pair[2] # Undefined)

\* crypto.createHash('sha256').update(input).digest('hex'), taken as free of
\* collisions
SHA256(input) == [sha256 |-> input]

\* the JSON both calculateHashChain and verifyAuditLogIntegrity hash, of an
\* event or of a row
eventData(e) ==
  JSONStringify(<< <<"id", e.id>>, <<"user_id", e.user_id>>,
                   <<"event_type", e.event_type>>, <<"resource_type", e.resource_type>>,
                   <<"resource_id", e.resource_id>>, <<"action", e.action>>,
                   <<"timestamp", e.timestamp>> >>)

\* previousHash + eventData when there is a previous hash, eventData alone
\* when there is none
chained(previousHash, data) == SHA256([previous |-> previousHash, data |-> data])

calculateHashChain(previousHash, event) == chained(previousHash, eventData(event))

AuditUserIds == {1, 2}

\* the events logEvent is given at time now: by logAuthEvent and
\* logSecurityEvent (no id, no resource), by logDataOperation and
\* logSharingEvent (no id), and by a caller that fills in every field
AuditEvents(now) ==
  {[id |-> Undefined, user_id |-> u, event_type |-> Val("auth.login"),
    resource_type |-> Undefined, resource_id |-> Undefined, action |-> Val("login"),
    timestamp |-> Val(now)] : u \in {Val(1), Null}}
  \cup
  {[id |-> i, user_id |-> Val(2), event_type |-> Val("data.create"),
    resource_type |-> Val("record"), resource_id |-> Val(1), action |-> Val("create"),
    timestamp |-> Val(now)] : i \in {Undefined, Val(100 + now)}}

\* ORDER BY timestamp DESC, id DESC LIMIT 1 (no two rows here share a timestamp)
LatestRow(rows) == CHOOSE r \in rows : \A q \in rows : q.timestamp.v <= r.timestamp.v

EarliestRow(rows) == CHOOSE r \in rows : \A q \in rows : r.timestamp.v <= q.timestamp.v

\* logEvent(event) up to its await of the INSERT: the id is chosen and the
\* newest row's hash_chain is read
LogEventSelect(event) ==
  /\ seq < MaxLog
  /\ event \in AuditEvents(seq + 1)
  /\ LET eventId == IF event.id # Undefined THEN event.id ELSE Val(seq + 1)
         previousHash == IF audit_logs = {} THEN Null
                         ELSE LatestRow(audit_logs).hash_chain
     IN logging' = logging \cup
          {[event |-> event, eventId |-> eventId, previousHash |-> previousHash]}
  /\ seq' = seq + 1
  /\ UNCHANGED <<audit_logs, verified>>
  /\ UNCHANGED <<cryptoVars, storeVars, fnVars, refreshVars, vaultVars, shareVars>>

\* logEvent from the hash it calculates to the row it inserts
LogEventInsert(l) ==
  /\ l \in logging
  /\ LET hashChain == calculateHashChain(l.previousHash, l.event)
     IN audit_logs' = audit_logs \cup
          {[id |-> l.eventId, user_id |-> l.event.user_id,
            event_type |-> l.event.event_type,
            resource_type |-> OrNull(l.event.resource_type),
            resource_id |-> OrNull(l.event.resource_id),
            action |-> l.event.action, timestamp |-> l.event.timestamp,
            hash_chain |-> hashChain]}
  /\ logging' = logging \ {l}
  /\ UNCHANGED <<verified, seq>>
  /\ UNCHANGED <<cryptoVars, storeVars, fnVars, refreshVars, vaultVars, shareVars>>

\* permanentlyDeleteUserData(userId), as far as the audit log goes: the user's
\* rows keep their hash_chain and lose their user_id
PermanentlyDeleteUserData(userId) ==
  /\ \E r \in audit_logs : r.user_id = Val(userId)
  /\ audit_logs' = {IF r.user_id = Val(userId) THEN [r EXCEPT !.user_id = Null] ELSE r :
                      r \in audit_logs}
  /\ UNCHANGED <<logging, verified, seq>>
  /\ UNCHANGED <<cryptoVars, storeVars, fnVars, refreshVars, vaultVars, shareVars>>

\* the loop of verifyAuditLogIntegrity over the rows ORDER BY timestamp ASC:
\* the number of rows whose hash_chain is not the expected hash
RECURSIVE invalidCountFrom(_, _)
invalidCountFrom(rows, previousHash) ==
  IF rows = {} THEN 0
  ELSE LET row == EarliestRow(rows)
           expectedHash == chained(previousHash, eventData(row))
       IN (IF row.hash_chain # expectedHash THEN 1 ELSE 0)
          + invalidCountFrom(rows \ {row}, row.hash_chain)

verifyAuditLogIntegrity(rows) ==
  LET invalidCount == invalidCountFrom(rows, Null)
  IN [returned |-> TRUE, valid |-> invalidCount = 0, invalidCount |-> invalidCount]

\* GET /audit/verify -> verifyAuditLogIntegrity()
VerifyAuditLogIntegrity ==
  /\ verified' = verifyAuditLogIntegrity(audit_logs)
  /\ UNCHANGED <<audit_logs, logging, seq>>
  /\ UNCHANGED <<cryptoVars, storeVars, fnVars, refreshVars, vaultVars, shareVars>>

AuditInit ==
  /\ audit_logs = {} /\ logging = {} /\ seq = 0
  /\ verified = [returned |-> FALSE, valid |-> FALSE, invalidCount |-> 0]

StoreNext ==
  \/ \E email \in Emails, password \in Passwords, fingerprint \in Fingerprints :
        Register(email, password, fingerprint)
  \/ \E email \in Emails, password \in Passwords, fingerprint \in Fingerprints :
        Login(email, password, fingerprint)
  \/ \E token \in tokens, d \in devices : RevokeDevice(token, d.id)
  \/ \E token \in tokens, password \in Passwords : DeleteAccount(token, password)
  \/ \E token \in tokens, password \in Passwords : DeviceOnboard(token, password)
  \/ \E l \in local : DeviceUnlock(l.device_id)

(* --------------------------- recovery codes ---------------------------- *)
Codes == 1..MaxCodes

\* the sequences over S of length at most n
SeqsUpTo(S, n) == UNION {[1..k -> S] : k \in 0..n}

CODE_LENGTH == 8
CODE_COUNT == 10
CODE_CHARSET ==
  <<"A", "B", "C", "D", "E", "F", "G", "H", "J", "K", "L", "M", "N", "P", "Q", "R",
    "S", "T", "U", "V", "W", "X", "Y", "Z", "2", "3", "4", "5", "6", "7", "8", "9">>

\* crypto.randomInt(0, max), the n-th draw of a call: any value below max may
\* come out. A stream is one course the draws can take, here an arithmetic
\* progression mod max.
RandomInt(stream, n, max) == (stream.first + stream.step * n) % max

\* generateRecoveryCodes that leaves the inner loop one character early
generateRecoveryCodes_shortCodes(stream) ==
  [i \in 1..CODE_COUNT |->
     [j \in 1..(CODE_LENGTH - 1) |->
        CODE_CHARSET[RandomInt(stream, (i - 1) * CODE_LENGTH + (j - 1), Len(CODE_CHARSET)) + 1]]]

\* generateRecoveryCodes(): CODE_COUNT codes of CODE_LENGTH characters, each
\* CODE_CHARSET[randomInt(0, CODE_CHARSET.length)]
generateRecoveryCodes(stream) ==
  [i \in 1..CODE_COUNT |->
     [j \in 1..CODE_LENGTH |->
        CODE_CHARSET[RandomInt(stream, (i - 1) * CODE_LENGTH + (j - 1), Len(CODE_CHARSET)) + 1]]]

\* hashRecoveryCode(code): argon2.hash under a salt drawn for this call
hashRecoveryCode(code, draw) == [phc |-> TRUE, pw |-> code, salt |-> draw]

\* verifyRecoveryCode(code, hash): try { await argon2.verify(hash, code);
\* return true } catch { return false }. What verify resolves to is not read.
verifyRecoveryCode(code, hash) == ~Argon2Verify(hash, code).threw

\* the for loop of verifyRecoveryCodeAgainstArray from index i (0-based) on
RECURSIVE verifyRecoveryCodeFrom(_, _, _)
verifyRecoveryCodeFrom(code, hashes, i) ==
  IF i >= Len(hashes) THEN -1
  ELSE IF verifyRecoveryCode(code, hashes[i + 1]) THEN i
  ELSE verifyRecoveryCodeFrom(code, hashes, i + 1)

verifyRecoveryCodeAgainstArray(code, hashes) == verifyRecoveryCodeFrom(code, hashes, 0)

FnInit == call = None

\* hash = hashRecoveryCode(stored); verifyRecoveryCode(code, hash)
VerifyRecoveryCode(code, stored) ==
  /\ call = None
  /\ call' = [op |-> "verifyRecoveryCode", code |-> code, stored |-> stored,
              res |-> verifyRecoveryCode(code, hashRecoveryCode(stored, 1))]
  /\ UNCHANGED <<cryptoVars, storeVars, refreshVars, vaultVars, shareVars, auditVars>>

\* hashes = codes.map(hashRecoveryCode); verifyRecoveryCodeAgainstArray(code, hashes)
VerifyRecoveryCodeAgainstArray(code, codes) ==
  /\ call = None
  /\ LET hashes == [i \in 1..Len(codes) |-> hashRecoveryCode(codes[i], i)]
     IN call' = [op |-> "verifyRecoveryCodeAgainstArray", code |-> code,
                 codes |-> codes, res |-> verifyRecoveryCodeAgainstArray(code, hashes)]
  /\ UNCHANGED <<cryptoVars, storeVars, refreshVars, vaultVars, shareVars, auditVars>>

(* ------------------------ decrypt on altered input --------------------- *)
\* what a caller may do to an EncryptedData before handing it to decrypt:
\* nothing, flip one bit of a field, or cut a field short
Alterations ==
  {[kind |-> "none"]}
    \cup [kind : {"flip"}, field : {"ciphertext", "tag", "nonce"},
          pos : {1, AES_NONCE_SIZE}, b : {0, 7}]
    \cup [kind : {"truncate"}, field : {"tag", "nonce"}, len : {0, 3, AES_NONCE_SIZE}]

Altered(encrypted, alter) ==
  CASE alter.kind = "none" -> encrypted
    [] alter.kind = "flip" -> FlipIn(encrypted, alter.field, alter.pos, alter.b)
    [] alter.kind = "truncate" ->
         [encrypted EXCEPT ![alter.field] = SubSeq(@, 1, alter.len)]

\* encrypted = encrypt(plaintext, keyA); decrypt(altered copy of encrypted, key)
DecryptAltered(plaintext, alter, key) ==
  /\ call = None
  /\ alter.kind = "flip" => alter.pos <= Len(encrypt(plaintext, keyA, 1).val[alter.field])
  /\ call' = [op |-> "decrypt", pt |-> plaintext, alter |-> alter, key |-> key,
              res |-> decrypt(Altered(encrypt(plaintext, keyA, 1).val, alter), key)]
  /\ UNCHANGED <<cryptoVars, storeVars, refreshVars, vaultVars, shareVars, auditVars>>

(* -------------------- key operations and key length -------------------- *)
\* key buffers of several lengths, AES_KEY_SIZE among them
KeyLengths == {0, 16, AES_KEY_SIZE - 1, AES_KEY_SIZE, AES_KEY_SIZE + 1}

KeysOfAnyLength == {RandomBytes(n, 5) : n \in KeyLengths} \cup {keyA}

KeyOperations ==
  {"encrypt", "decrypt", "wrapDEK", "unwrapDEK", "verifyKEK",
   "wrapKEKWithDeviceKey", "unwrapKEKWithDeviceKey",
   "wrapDeviceKeyWithKEK", "unwrapDeviceKeyWithKEK",
   "rotateKEK(key, _)", "rotateKEK(_, key)"}

\* one call of the operation name with key as its key argument; the other
\* arguments are a DEK and that DEK wrapped under keyA. given is the list
\* handed to rotateKEK.
KeyOperation(name, key, given) ==
  /\ call = None
  /\ LET dek == generateDEK(3)
         wrapped == wrapDEK(dek, keyA, 1).val
         res == CASE name = "encrypt" -> encrypt(ItemData, key, 2)
                  [] name = "decrypt" -> decrypt(wrapped, key)
                  [] name = "wrapDEK" -> wrapDEK(dek, key, 2)
                  [] name = "unwrapDEK" -> unwrapDEK(wrapped, key)
                  [] name = "verifyKEK" -> Ok(verifyKEK(key, wrapped))
                  [] name = "wrapKEKWithDeviceKey" -> wrapKEKWithDeviceKey(dek, key, 2)
                  [] name = "unwrapKEKWithDeviceKey" -> unwrapKEKWithDeviceKey(wrapped, key)
                  [] name = "wrapDeviceKeyWithKEK" -> wrapDeviceKeyWithKEK(dek, key, 2)
                  [] name = "unwrapDeviceKeyWithKEK" -> unwrapDeviceKeyWithKEK(wrapped, key)
                  [] name = "rotateKEK(key, _)" ->
                       rotateKEK(key, keyB, [i \in 1..given |-> wrapped], 2)
                  [] name = "rotateKEK(_, key)" ->
                       rotateKEK(keyA, key, [i \in 1..given |-> wrapped], 2)
     IN call' = [op |-> "keyOperation", name |-> name, key |-> key, given |-> given,
                 res |-> res]
  /\ UNCHANGED <<cryptoVars, storeVars, refreshVars, vaultVars, shareVars, auditVars>>

(* --------------------------- nonce freshness --------------------------- *)
\* encrypted1 = encrypt(plaintext, key); encrypted2 = encrypt(plaintext, key),
\* with between other draws made from the CSPRNG in the meantime
EncryptTwice(plaintext, key, between) ==
  /\ call = None
  /\ call' = [op |-> "encryptTwice", pt |-> plaintext, key |-> key,
              first |-> encrypt(plaintext, key, rng + 1),
              second |-> encrypt(plaintext, key, rng + 2 + between)]
  /\ UNCHANGED <<cryptoVars, storeVars, refreshVars, vaultVars, shareVars, auditVars>>

(* ---------------------------- KEK derivation --------------------------- *)
\* the optional salt argument of deriveKEK: left out, or one of two salts
\* that earlier derivations returned
SaltArguments ==
  {[omitted |-> TRUE, bytes |-> <<>>]}
    \cup {[omitted |-> FALSE, bytes |-> RandomBytes(SALT_SIZE, d)] : d \in 1..2}

\* kek1 = await deriveKEK(password1, salt1); kek2 = await deriveKEK(password2, salt2)
DeriveTwice(password1, salt1, password2, salt2) ==
  /\ call = None
  /\ call' = [op |-> "deriveKEK",
              password1 |-> password1, salt1 |-> salt1,
              password2 |-> password2, salt2 |-> salt2,
              first |-> deriveKEK(password1, salt1, rng + 1),
              second |-> deriveKEK(password2, salt2, rng + 2)]
  /\ UNCHANGED <<cryptoVars, storeVars, refreshVars, vaultVars, shareVars, auditVars>>

(* ------------------------- device key wrapping ------------------------- *)
DeviceKeys == {generateDeviceKey(6), generateDeviceKey(7)}

\* wrap one key under the other, then unwrap the result with the key with:
\* wrapKEKWithDeviceKey / unwrapKEKWithDeviceKey when what = "kek",
\* wrapDeviceKeyWithKEK / unwrapDeviceKeyWithKEK when what = "deviceKey"
DeviceWrapUnwrap(what, k, deviceKey, with) ==
  /\ call = None
  /\ LET wrapped == IF what = "kek" THEN wrapKEKWithDeviceKey(k, deviceKey, rng + 1)
                    ELSE wrapDeviceKeyWithKEK(deviceKey, k, rng + 1)
         res == IF what = "kek" THEN unwrapKEKWithDeviceKey(wrapped.val, with)
                ELSE unwrapDeviceKeyWithKEK(wrapped.val, with)
     IN call' = [op |-> "deviceWrapUnwrap", what |-> what, kek |-> k,
                 deviceKey |-> deviceKey, with |-> with, res |-> res]
  /\ UNCHANGED <<cryptoVars, storeVars, refreshVars, vaultVars, shareVars, auditVars>>

(* ----------------------- recovery code generation ---------------------- *)
\* courses the draws of one generateRecoveryCodes call can take
Streams == [first : {0, 10, 31}, step : {0, 1, 4, 5, 7, 11}]

\* codes = generateRecoveryCodes()
GenerateRecoveryCodes(stream) ==
  /\ call = None
  /\ call' = [op |-> "generateRecoveryCodes", stream |-> stream,
              res |-> generateRecoveryCodes(stream)]
  /\ UNCHANGED <<cryptoVars, storeVars, refreshVars, vaultVars, shareVars, auditVars>>

(* ----------------------------- serialization -------------------------- *)
\* encrypted = encrypt(plaintext, key); serialized = serializeEncrypted(encrypted);
\* deserialized = deserializeEncrypted(serialized); decrypt(deserialized, key)
SerializeDeserialize(plaintext, key) ==
  /\ call = None
  /\ LET encrypted == encrypt(plaintext, key, rng + 1).val
         serialized == serializeEncrypted(encrypted)
         deserialized == deserializeEncrypted(serialized)
     IN call' = [op |-> "serialize", pt |-> plaintext, key |-> key,
                 encrypted |-> encrypted, serialized |-> serialized,
                 deserialized |-> deserialized,
                 decrypted |-> IF deserialized.ok THEN decrypt(deserialized.val, key)
                               ELSE Err(deserialized.err)]
  /\ UNCHANGED <<cryptoVars, storeVars, refreshVars, vaultVars, shareVars, auditVars>>

(* ------------------------- field-level permissions ---------------------- *)
FieldNames == {"field1", "field2", "field3"}

\* the objects filterFields is given: some of the fields, each with its value
DataObjects ==
  {[f \in D |-> <<"value of", f>>] : D \in SUBSET FieldNames}

\* an optional array of field names: left out, or given with these members
FieldLists ==
  {[omitted |-> TRUE, list |-> {}]}
  \cup {[omitted |-> FALSE, list |-> L] : L \in SUBSET {"field1", "field2"}}

\* a permission without conditions, and the permissions whose conditions carry
\* allowedFields, deniedFields, both or neither
FieldPermissions ==
  {[action |-> "read",
    conditions |-> [omitted |-> TRUE, allowedFields |-> [omitted |-> TRUE, list |-> {}],
                    deniedFields |-> [omitted |-> TRUE, list |-> {}]]]}
  \cup
  {[action |-> "read",
    conditions |-> [omitted |-> FALSE, allowedFields |-> a, deniedFields |-> d]] :
      a \in FieldLists, d \in FieldLists}

checkFieldAccess(permission, fieldName) ==
  IF permission.conditions.omitted THEN TRUE
  ELSE LET allowedFields == permission.conditions.allowedFields
           deniedFields == permission.conditions.deniedFields
       IN IF ~deniedFields.omitted /\ fieldName \in deniedFields.list THEN FALSE
          ELSE IF ~allowedFields.omitted THEN fieldName \in allowedFields.list
          ELSE TRUE

filterFields(data, permission) ==
  IF permission.conditions.omitted \/ permission.conditions.allowedFields.omitted
  THEN data
  ELSE [field \in {f \in permission.conditions.allowedFields.list : f \in DOMAIN data}
          |-> data[field]]

\* filtered = filterFields(data, permission)
FilterFields(data, permission) ==
  /\ call = None
  /\ call' = [op |-> "filterFields", data |-> data, permission |-> permission,
              filtered |-> filterFields(data, permission)]
  /\ UNCHANGED <<cryptoVars, storeVars, refreshVars, vaultVars, shareVars, auditVars>>

FnNext ==
  \/ \E data \in DataObjects, permission \in FieldPermissions :
        FilterFields(data, permission)
  \/ \E plaintext \in Plaintexts, key \in {kek.key, keyA, keyB} :
        SerializeDeserialize(plaintext, key)
  \/ \E stream \in Streams : GenerateRecoveryCodes(stream)
  \/ \E what \in {"kek", "deviceKey"}, k \in {kek.key, keyA}, deviceKey \in DeviceKeys,
        with \in {kek.key, keyA, keyB} \cup DeviceKeys :
        DeviceWrapUnwrap(what, k, deviceKey, with)
  \/ \E password1 \in Passwords, password2 \in Passwords,
        salt1 \in SaltArguments, salt2 \in SaltArguments :
        DeriveTwice(password1, salt1, password2, salt2)
  \/ \E plaintext \in Plaintexts, key \in {kek.key, keyA, keyB}, between \in 0..MaxItems :
        EncryptTwice(plaintext, key, between)
  \/ \E name \in KeyOperations, key \in KeysOfAnyLength, given \in 0..MaxItems :
        KeyOperation(name, key, given)
  \/ \E plaintext \in Plaintexts, alter \in Alterations, key \in {keyA, keyB} :
        DecryptAltered(plaintext, alter, key)
  \/ \E code \in Codes, stored \in Codes : VerifyRecoveryCode(code, stored)
  \/ \E code \in Codes, codes \in SeqsUpTo(Codes, MaxHashes) :
        VerifyRecoveryCodeAgainstArray(code, codes)

vars == <<rng, kek, items, rot, blob, out, users, devices, sessions, user_keys, data_keys,
          tokens, local, ctr, owner, erased, revoked, unlock, call, pending, refreshed,
          records, sent, shares, permissions, checks, audit_logs, logging, verified,
          seq>>

Init ==
  CryptoInit /\ StoreInit /\ FnInit /\ RefreshInit /\ VaultInit /\ ShareInit
  /\ AuditInit

\* the key manager on its own
Next == CryptoNext

Spec == Init /\ [][Next]_vars

\* the server's handlers and the devices
NextStore == StoreNext

SpecStore == Init /\ [][NextStore]_vars

\* sessions and their refresh tokens
NextSession ==
  \/ \E email \in Emails, password \in Passwords, fingerprint \in Fingerprints :
        Register(email, password, fingerprint)
  \/ \E email \in Emails, password \in Passwords, fingerprint \in Fingerprints :
        Login(email, password, fingerprint)
  \/ \E token \in RefreshTokens : RefreshSelect(token)
  \/ \E p \in pending : RefreshUpdate(p)
  \/ \E s \in sessions : ExpireSession(s)

SpecSession == Init /\ [][NextSession]_vars

\* sessions and devices, and their revocation
NextRevoke ==
  \/ \E email \in Emails, password \in Passwords, fingerprint \in Fingerprints :
        Register(email, password, fingerprint)
  \/ \E email \in Emails, password \in Passwords, fingerprint \in Fingerprints :
        Login(email, password, fingerprint)
  \/ \E token \in tokens, x \in sessions : RevokeSession(token, x.id)
  \/ \E token \in tokens, d \in devices : RevokeDevice(token, d.id)
  \/ \E user \in users : RevokeAllSessions(user.id)
  \/ \E x \in sessions : ExpireSession(x)
  \/ \E user \in users : ActivatePanicMode(user.id)

SpecRevoke == Init /\ [][NextRevoke]_vars

\* shares and the checks made against them
NextShare ==
  \/ \E email \in Emails, password \in Passwords, fingerprint \in Fingerprints :
        Register(email, password, fingerprint)
  \/ \E user \in users, resource_id \in ResourceIds, perms \in PermissionLists :
        CreateShare(user.id, resource_id, perms)
  \/ \E s \in shares : ExpireShare(s)
  \/ \E token \in ShareTokens, request \in AccessRequests :
        CheckShareAccessShare(token, request)
  \/ \E c \in checks : CheckShareAccessPermissions(c)
  \/ \E c \in checks : CheckShareAccessUpdate(c)
  \/ \E user \in users : ActivatePanicMode(user.id)

SpecShare == Init /\ [][NextShare]_vars

\* the audit log, its writers and its verification
NextAudit ==
  \/ \E event \in AuditEvents(seq + 1) : LogEventSelect(event)
  \/ \E l \in logging : LogEventInsert(l)
  \/ \E userId \in AuditUserIds : PermanentlyDeleteUserData(userId)
  \/ VerifyAuditLogIntegrity

SpecAudit == Init /\ [][NextAudit]_vars

\* the vault's records and the account they belong to
NextVault ==
  \/ \E email \in Emails, password \in Passwords, fingerprint \in Fingerprints :
        Register(email, password, fingerprint)
  \/ \E email \in Emails, password \in Passwords, fingerprint \in Fingerprints :
        Login(email, password, fingerprint)
  \/ \E token \in tokens : CreateRecord(token)
  \/ \E token \in tokens, r \in records : DeleteRecord(token, r.id)
  \/ \E token \in tokens, password \in Passwords : DeleteAccount(token, password)

SpecVault == Init /\ [][NextVault]_vars

\* the stateless functions, one call per run
NextFn == FnNext

SpecFn == Init /\ [][NextFn]_vars

(* ------------------------- checked properties -------------------------- *)
\* every DEK the rotation was given is wrapped under oldKEK and untouched
GivenUnder(oldKEK) ==
  \A i \in 1..Len(rot.given) : rot.given[i].under = oldKEK /\ ~rot.given[i].flipped

\* C1 as the specification states it: rotateKEK(oldKEK, newKEK, W) returns R of
\* W's length, R[i] unwraps under newKEK to the DEK W[i] held under oldKEK, and
\* no R[i] unwraps under oldKEK, for every 256-bit newKEK
C1_AsStated ==
  (rot.op = "rotateKEK" /\ GivenUnder(rot.oldKEK)) =>
     /\ rot.res.ok
     /\ Len(rot.res.val) = Len(rot.given)
     /\ \A i \in 1..Len(rot.given) :
          /\ unwrapDEK(rot.res.val[i], rot.newKEK) = Ok(rot.given[i].dek)
          /\ unwrapDEK(rot.given[i].wrappedDEK, rot.oldKEK) = Ok(rot.given[i].dek)
          /\ ~unwrapDEK(rot.res.val[i], rot.oldKEK).ok

\* C1: rotateKEK(oldKEK, newKEK, W) returns R of W's length and R[i] unwraps
\* under newKEK to the DEK W[i] held under oldKEK; no R[i] unwraps under oldKEK
\* provided newKEK differs from oldKEK
C1_RotateKEK ==
  (rot.op = "rotateKEK" /\ GivenUnder(rot.oldKEK)) =>
     /\ rot.res.ok
     /\ Len(rot.res.val) = Len(rot.given)
     /\ \A i \in 1..Len(rot.given) :
          /\ unwrapDEK(rot.res.val[i], rot.newKEK) = Ok(rot.given[i].dek)
          /\ unwrapDEK(rot.given[i].wrappedDEK, rot.oldKEK) = Ok(rot.given[i].dek)
          /\ rot.newKEK # rot.oldKEK => ~unwrapDEK(rot.res.val[i], rot.oldKEK).ok

\* a rotateKEK of two DEKs from the user's KEK to a different one has returned
C1_Witness ==
  /\ rot.op = "rotateKEK" /\ GivenUnder(rot.oldKEK)
  /\ Len(rot.given) >= 2 /\ rot.newKEK # rot.oldKEK
  /\ rot.res.ok /\ Len(rot.res.val) = Len(rot.given)

\* some wrapped DEK the rotation was given does not unwrap under the old KEK
SomeFailsToUnwrap ==
  \E i \in 1..Len(rot.given) : ~unwrapDEK(rot.given[i].wrappedDEK, rot.oldKEK).ok

C3_RotateUserKEK ==
  (rot.op = "rotateUserKEK" /\ GivenUnder(rot.oldKEK)) =>
     /\ rot.res.ok
     /\ Len(rot.res.val.reWrappedDEKs) = Len(rot.given)
     /\ items = rot.given
     /\ LET reDerived == deriveKEKWithSalt(rot.newPassword, rot.res.val.newKEK.salt).key
        IN \A i \in 1..Len(rot.given) :
             LET r == rot.res.val.reWrappedDEKs[i]
             IN /\ r.id = rot.given[i].id
                /\ unwrapDEK(r.wrappedDEK, reDerived) = Ok(rot.given[i].dek)
                /\ decrypt(items[i].ciphertext, unwrapDEK(r.wrappedDEK, reDerived).val)
                     = Ok(ItemData)
                /\ ~unwrapDEK(r.wrappedDEK,
                              deriveKEKWithSalt(rot.oldPassword, rot.oldSalt).key).ok

\* a rotateUserKEK of two DEKs to the same password has returned
C3_Witness ==
  /\ rot.op = "rotateUserKEK" /\ GivenUnder(rot.oldKEK)
  /\ Len(rot.given) >= 2 /\ rot.newPassword = rot.oldPassword
  /\ rot.res.ok
  /\ rot.res.val.reWrappedDEKs[2].id = rot.given[2].id

\* C6: after any single bit of the ciphertext or of the tag of encrypt(p, k) is
\* flipped, decrypt under k fails with "Decryption failed"; and whatever the
\* key and the flip, decrypt never returns a plaintext other than p
C6_TamperDetected ==
  out.op = "decrypt" =>
     /\ (blob.flipped # "none" /\ out.key = blob.key) => out.res = Err("DecryptionFailed")
     /\ out.res.ok => out.res.val = blob.pt

\* decrypt has run under the right key on a 32-byte blob whose ciphertext had
\* one bit flipped, and has failed
C6_Witness ==
  /\ out.op = "decrypt" /\ out.key = blob.key
  /\ blob.flipped = "ciphertext" /\ Len(blob.pt) = AES_KEY_SIZE
  /\ ~out.res.ok

\* C7: decrypt(encrypt(p, k), k) = p for every 256-bit k and every p, the
\* empty plaintext included
C7_RoundTrip ==
  (out.op = "decrypt" /\ blob.flipped = "none" /\ out.key = blob.key) =>
     out.res = Ok(blob.pt)

\* the empty plaintext has been encrypted and decrypted under the same key
C7_Witness ==
  /\ out.op = "decrypt" /\ blob.flipped = "none" /\ out.key = blob.key
  /\ blob.pt = <<>> /\ blob.enc.ciphertext = <<>>
  /\ out.res.ok

\* C8: for a DEK d wrapped under k1, unwrapDEK under k2 returns d if k2 = k1
\* and fails otherwise; verifyKEK(k2, wrapped) is a boolean, true exactly when
\* k2 = k1
C8_WrapUnwrap ==
  /\ (out.op = "unwrapDEK" /\ ~items[out.item].flipped) =>
        IF out.key = items[out.item].under
        THEN out.res = Ok(items[out.item].dek)
        ELSE ~out.res.ok
  /\ (out.op = "verifyKEK" /\ ~items[out.item].flipped) =>
        /\ out.res \in BOOLEAN
        /\ out.res = (out.key = items[out.item].under)

\* verifyKEK has answered false for a KEK of another password under the same salt
C8_Witness ==
  /\ out.op = "verifyKEK" /\ ~items[out.item].flipped
  /\ out.key # items[out.item].under
  /\ \E p \in Passwords : out.key = deriveKEKWithSalt(p, kek.salt).key
  /\ out.res = FALSE

\* C9 as the specification states it: once deleteAccount has completed for a
\* user, storage holds no KEK salt / key version of that user (neither in users
\* nor in user_keys), no wrapped DEK of that user and no wrapped device key of
\* that user
C9_AsStated ==
  \A u \in erased :
     /\ ~\E row \in users : row.id = u /\ (row.kek_salt # <<>> \/ row.key_version # 0)
     /\ ~\E k \in user_keys : k.user_id = u
     /\ ~\E k \in data_keys, uk \in user_keys : uk.user_id = u /\ k.key_id = uk.id
     /\ ~\E d \in devices : d.user_id = u

\* C10 as the specification states it: a device that unlocks from what it kept
\* locally after it was revoked does not obtain the user's KEK
C10_AsStated ==
  (unlock.op = "unlock" /\ unlock.revoked) =>
     ~\E o \in owner : o.user_id = unlock.user_id /\ unlock.res = Ok(o.kek)

\* C11: verifyRecoveryCode(c, hashRecoveryCode(c)) is true, and
\* verifyRecoveryCode(w, hashRecoveryCode(c)) is false whenever w # c
C11_AsStated ==
  call.op = "verifyRecoveryCode" => (call.res <=> call.code = call.stored)

\* the 0-based index of the first of codes that equals code, -1 when none does
FirstIndexOf(code, codes) ==
  IF \E i \in 1..Len(codes) : codes[i] = code
  THEN (CHOOSE i \in 1..Len(codes) :
          /\ codes[i] = code
          /\ \A j \in 1..(i - 1) : codes[j] # code) - 1
  ELSE -1

\* C12: verifyRecoveryCodeAgainstArray(code, hashes) returns the index of the
\* first stored hash that is the hash of code, and -1 (NotFound) when code
\* matches none of them, the empty array included
C12_AsStated ==
  call.op = "verifyRecoveryCodeAgainstArray" => call.res = FirstIndexOf(call.code, call.codes)

\* the password presented is not the one the account of email was registered with
WrongPassword(email, password) ==
  \E u \in users, o \in owner :
    u.email = email /\ o.user_id = u.id /\ o.password # password

\* C14: verifyPassword(p, hashPassword(q)) is true exactly when p = q, so a
\* login with a wrong password is answered INVALID_CREDENTIALS and creates no
\* device, no session and no token
C14_AsStated ==
  [][\A email \in Emails, password \in Passwords, fingerprint \in Fingerprints :
       (Login(email, password, fingerprint) /\ WrongPassword(email, password))
         => UNCHANGED <<devices, sessions, tokens>>]_vars

\* the hash of token is stored on an unexpired session
StoredUnexpired(token) ==
  \E s \in sessions : ~s.expired /\ Argon2Verify(s.refresh_token_hash, token).val

\* C15: refresh tokens are single-use and rotated: a refresh succeeds only for
\* a token whose hash is stored on an unexpired session, a token that a
\* refresh succeeded with is not accepted again, and of two concurrent
\* refreshes with the same token at most one obtains new tokens
C15_AsStated ==
  /\ [][\A token \in RefreshTokens :
          RefreshSelect(token) =>
            /\ StoredUnexpired(token)
            /\ \A r \in refreshed : r.token # token]_vars
  /\ [](\A r1, r2 \in refreshed : r1.token = r2.token => r1 = r2)

\* C16: every failing decrypt with a 256-bit key yields the same single
\* DecryptionFailed outcome, whether the cause is a wrong key, an altered
\* ciphertext, an altered or malformed tag, or an altered nonce
C16_AsStated ==
  (call.op = "decrypt" /\ Len(call.key) = AES_KEY_SIZE /\ ~call.res.ok)
    => call.res.err = "DecryptionFailed"

\* C17: every key operation (encrypt, decrypt, wrapDEK, unwrapDEK, verifyKEK,
\* device-key wrap/unwrap, rotateKEK) called with a key that is not exactly 32
\* bytes fails with InvalidKeyLength, which is not DecryptionFailed, produces
\* no output, and the failure is not turned into another result
C17_AsStated ==
  (call.op = "keyOperation" /\ Len(call.key) # AES_KEY_SIZE)
    => call.res = Err("InvalidKeyLength")

\* C18: two encrypt calls under the same key never use the same nonce, so two
\* encryptions of the same plaintext under the same key never produce the
\* same output.  The CSPRNG is taken to be ideal: no two draws return the
\* same bytes (RandomBytes); what is checked is that each call takes its
\* nonce from a draw of its own and hands that nonce back.
C18_FreshNonce ==
  (call.op = "encryptTwice" /\ call.first.ok /\ call.second.ok)
    => /\ call.first.val.nonce # call.second.val.nonce
       /\ call.first.val # call.second.val

C18_Witness ==
  /\ call.op = "encryptTwice" /\ call.first.ok /\ call.second.ok
  /\ call.pt # <<>>
  /\ call.first.val.ciphertext # call.second.val.ciphertext

\* C19: exactly one DEK per item: for every stored record, storage holds
\* exactly one wrapped DEK for it while the record lives, and it is the
\* wrapped DEK that was sent with the ciphertext when the record was created
C19_AsStated ==
  \A r \in records :
    ~r.deleted =>
      /\ Cardinality({k \in data_keys : k.record_id = r.id}) = 1
      /\ \A k \in data_keys, x \in sent :
           (k.record_id = r.id /\ x.record_id = r.id) => k.dek_wrapped = x.dek_wrapped

\* C20: deriveKEK(secret, salt) with a supplied salt is deterministic and
\* returns that same salt; different secrets or different salts yield
\* different keys; with the salt omitted a fresh 16-byte salt is generated,
\* so two derivations of the same secret without a salt yield different keys.
\* Argon2id is taken to be collision-free (Argon2Raw) and the CSPRNG never to
\* repeat a draw (RandomBytes).
C20_DeriveKEK ==
  call.op = "deriveKEK" =>
    /\ Len(call.first.key) = ARGON2_KEY_LENGTH
    /\ ~call.salt1.omitted => call.first.salt = call.salt1.bytes
    /\ ~call.salt2.omitted => call.second.salt = call.salt2.bytes
    /\ (~call.salt1.omitted /\ call.salt1 = call.salt2 /\ call.password1 = call.password2)
         => call.first = call.second
    /\ (call.password1 # call.password2 \/ call.first.salt # call.second.salt)
         => call.first.key # call.second.key
    /\ call.salt1.omitted => Len(call.first.salt) = SALT_SIZE
    /\ (call.salt1.omitted /\ call.salt2.omitted)
         => /\ call.first.salt # call.second.salt
            /\ call.first.key # call.second.key

C20_Witness ==
  /\ call.op = "deriveKEK"
  /\ call.salt1.omitted /\ call.salt2.omitted /\ call.password1 = call.password2
  /\ call.first.key # call.second.key

\* C21: both device wrapping directions round-trip:
\* unwrapKEKWithDeviceKey(wrapKEKWithDeviceKey(kek, dk), dk) = kek and
\* unwrapDeviceKeyWithKEK(wrapDeviceKeyWithKEK(dk, kek), kek) = dk, and each
\* unwrap fails with DecryptionFailed under any other 256-bit key
C21_DeviceRoundTrip ==
  call.op = "deviceWrapUnwrap" =>
    LET wrappingKey == IF call.what = "kek" THEN call.deviceKey ELSE call.kek
        wrappedKey == IF call.what = "kek" THEN call.kek ELSE call.deviceKey
    IN IF call.with = wrappingKey THEN call.res = Ok(wrappedKey)
       ELSE call.res = Err("DecryptionFailed")

C21_Witness ==
  /\ call.op = "deviceWrapUnwrap" /\ call.what = "kek"
  /\ call.with = call.deviceKey /\ call.res = Ok(call.kek)

\* the characters of the codes of a batch
CharsOf(codes) == {codes[i][j] : i \in 1..Len(codes), j \in 1..CODE_LENGTH}

C23_AsStated ==
  call.op = "generateRecoveryCodes" =>
    \A i, j \in 1..Len(call.res) : call.res[i] = call.res[j] => i = j

\* C24: serializeEncrypted lays a blob out as nonce (12 bytes) || ciphertext
\* || tag (16 bytes), and for every blob b produced by encrypt,
\* deserializeEncrypted(serializeEncrypted(b)) equals b field by field and
\* decrypts to the original plaintext
C24_Serialization ==
  call.op = "serialize" =>
    LET n == Len(call.serialized)
    IN /\ n = 12 + Len(call.encrypted.ciphertext) + 16
       /\ SubSeq(call.serialized, 1, 12) = call.encrypted.nonce
       /\ SubSeq(call.serialized, 13, n - 16) = call.encrypted.ciphertext
       /\ SubSeq(call.serialized, n - 15, n) = call.encrypted.tag
       /\ call.deserialized.ok
       /\ call.deserialized.val.nonce = call.encrypted.nonce
       /\ call.deserialized.val.ciphertext = call.encrypted.ciphertext
       /\ call.deserialized.val.tag = call.encrypted.tag
       /\ call.decrypted = Ok(call.pt)

C24_Witness ==
  /\ call.op = "serialize" /\ Len(call.pt) = AES_KEY_SIZE
  /\ call.deserialized.ok /\ call.decrypted = Ok(call.pt)

\* C26: after a session or a device is revoked, no request bearing an access
\* token issued for that session or device passes the authenticate
\* middleware.  A token's jti is the id of the session that was created with
\* it.
C26_AsStated ==
  \A token \in tokens :
    (token.device_id \in revoked \/ token.jti \in revoked) => ~authenticate(token)

\* C27: a share permission with oneTime grants at most one successful access:
\* of the checkShareAccess calls that the same oneTime permission allowed for
\* the same token and action, at most one returns allowed = true.
C27_AsStated ==
  \A c1, c2 \in checks :
    ( /\ c1.pc = "returned" /\ c1.allowed /\ c1.oneTime
      /\ c2.pc = "returned" /\ c2.allowed
      /\ c1.token = c2.token /\ c1.request.action = c2.request.action
      /\ c1.permission = c2.permission )
    => c1.id = c2.id

\* C28: on a log that only the system's own operations have written to
\* (logEvent and its wrappers, one after another or overlapping, and
\* permanentlyDeleteUserData), verifyAuditLogIntegrity reports valid = true and
\* invalidCount = 0.
C28_AsStated == verified.returned => (verified.valid /\ verified.invalidCount = 0)

\* C29: the fields filterFields returns are exactly the fields of the data for
\* which checkFieldAccess returns true, so a field listed in deniedFields never
\* appears in the result.
C29_AsStated ==
  call.op = "filterFields" =>
    DOMAIN call.filtered =
      {f \in DOMAIN call.data : checkFieldAccess(call.permission, f)}

\* C30: every stored devices.device_key_wrapped, whether written by
\* registration or by a login from a new device, deserializes to a wrapped
\* blob that unwraps under the owning user's current KEK to a 32-byte device
\* key.
C30_AsStated ==
  \A d \in devices : \A o \in owner :
    o.user_id = d.user_id =>
      LET stored == deserializeEncrypted(d.device_key_wrapped)
      IN /\ stored.ok
         /\ unwrapDeviceKeyWithKEK(stored.val, o.kek).ok
         /\ Len(unwrapDeviceKeyWithKEK(stored.val, o.kek).val) = DEVICE_KEY_SIZE

====
